---- MODULE Spec2Model ----
(***************************************************************************)
(* Model of push_notifications/models.py: the Device / APNSDevice /        *)
(* GCMDevice proxies, their querysets and the Notification log.            *)
(*                                                                         *)
(* A send_message call is followed step by step: every database query,     *)
(* the insert of a Notification, the insert of its devices and every       *)
(* provider client call is one step, so that the order of these steps is   *)
(* visible in the states.                                                  *)
(***************************************************************************)
EXTENDS Naturals, Sequences, FiniteSets

(* ------------------------------ bounds --------------------------------- *)

MaxDevices == 2

DeviceIds == 1 .. MaxDevices

(* ------------------------- program constants --------------------------- *)

APNS == 0

GCM == 1

\* a stored device_type that is neither Device.APNS nor Device.GCM
\* (device_type is a plain IntegerField; choices are not enforced on save)
UNKNOWN == 2

DEVICE_TYPES == {APNS, GCM}

StoredTypes == DEVICE_TYPES \cup {UNKNOWN}

\* Python's None, as message or as return value
None == "None"

\* the values a caller passes as message: a string, or None
Messages == {"hi", None}

\* responses of the provider clients
ApnsResponse == "apns_response"

GcmResponse == "gcm_response"

Outcomes == {"ok", "raise"}

\* the registration id stored with device d (distinct per device)
RegistrationIdOf(d) == 100 + d

\* the keyword arguments a caller passes: any of badge=1 and extra=<mapping>;
\* the value under "extra" is a reference to the caller's mapping object,
\* whose content is the variable extra
KwargsChoices ==
    { [k \in S |-> IF k = "extra" THEN "ref" ELSE "1"] : S \in SUBSET {"badge", "extra"} }

EmptyMapping == [k \in {} |-> "x"]

\* the mapping the caller built before the first send
CallerExtra == [k \in {"k"} |-> "v"]

NoInst == [pk |-> 0, cls |-> "none", loaded |-> "none", device_type |-> APNS]

NoQuerySet == [model |-> "none", ids |-> {}]

NoEntry == [kind |-> "none", cls |-> "none", pk |-> 0, qs |-> NoQuerySet, kwargs |-> <<>>,
            extra |-> EmptyMapping]

Pending == [kind |-> "pending", value |-> None]

VARIABLES
    registry,       \* the Device table: pk -> row, for the pks it has
    extra,          \* content of the caller's extra mapping object
    inst,           \* the instance the caller holds: pk, runtime class, class it was
                    \* loaded as, and the device_type it was loaded with
    notifications,  \* rows inserted into the Notification table by the current call, in order
    calls,          \* provider client calls made by the current call, in order
    result,         \* what the current call gave its caller: return value or error
    pc,             \* position inside the running send_message call
    message,        \* argument message of the running call
    kwargs,         \* argument **kwargs of the running call
    queryset,       \* the queryset whose send_message is running
    cache,          \* its result cache, filled by "if self:"
    buckets,        \* DeviceQuerySet.send_message: device_type -> ids
    keys,           \* DeviceQuerySet.send_message: keys not yet visited
    data,           \* GCM paths: the data mapping
    reg_ids,        \* bulk paths: the registration-id list
    nested,         \* TRUE when the running typed call was made by a generic one
    entry           \* what the caller invoked and passed (kept for the properties)

vars == << registry, extra, inst, notifications, calls, result, pc, message,
           kwargs, queryset, cache, buckets, keys, data, reg_ids, nested, entry >>

(* ------------------------------ helpers -------------------------------- *)

SeqRange(s) == { s[i] : i \in 1 .. Len(s) }

\* the orders in which a query without order_by can give the rows K
Orders(K) == { s \in [1 .. Cardinality(K) -> K] : \A i, j \in 1 .. Cardinality(K) : s[i] = s[j] => i = j }

\* dict.pop(key, default) leaves the dict without key
Pop(kw, key) == [k \in (DOMAIN kw) \ {key} |-> kw[k]]

\* data["message"] = message
SetItem(m, key, value) == [k \in (DOMAIN m) \cup {key} |-> IF k = key THEN value ELSE m[k]]

\* json.dumps of a flat mapping of strings, as its token list
DumpMapping(m) ==
    << "{" >>
    \o (IF "k" \in DOMAIN m THEN << "k", m["k"] >> ELSE << >>)
    \o (IF "message" \in DOMAIN m THEN << "message", m["message"] >> ELSE << >>)
    \o << "}" >>

\* json.dumps(kwargs), as its token list; heap is the content of the mapping
\* that kwargs["extra"] refers to
JsonDumps(kw, heap) ==
    << "{" >>
    \o (IF "badge" \in DOMAIN kw THEN << "badge", kw["badge"] >> ELSE << >>)
    \o (IF "extra" \in DOMAIN kw THEN << "extra" >> \o DumpMapping(heap) ELSE << >>)
    \o << "}" >>

\* variant: the second branch resolves to the wrong model
get_device_model_by_type_one_model(device_type) ==
    IF device_type = APNS THEN "APNSDevice"
    ELSE IF device_type = GCM THEN "APNSDevice"
    ELSE "None"

get_device_model_by_type(device_type) ==
    IF device_type = APNS THEN "APNSDevice"
    ELSE IF device_type = GCM THEN "GCMDevice"
    ELSE "None"

\* the filter a manager puts on every queryset of its model
ManagerFilter(model, d) ==
    CASE model = "APNSDevice" -> registry[d].device_type = APNS
      [] model = "GCMDevice"  -> registry[d].device_type = GCM
      [] OTHER                -> TRUE

\* evaluating a queryset: the pks of its rows, among the rows the table has
Rows(qs) == { d \in qs.ids \cap DOMAIN registry : ManagerFilter(qs.model, d) }

\* list(self.filter(active=True).values_list('registration_id', flat=True)):
\* the lists the query can give; it has no order_by and Device has no
\* Meta.ordering, so the order of the rows is the database's choice
ActiveRegIds(qs) ==
    { [i \in 1 .. Len(ids) |-> registry[ids[i]].registration_id] :
        ids \in Orders({ d \in Rows(qs) : registry[d].active }) }

\* Notification.create_notification_for, cls(...) and notification.save():
\* the row it inserts, still without devices, and the error it raises.
\* Notification.message is a TextField without null=True, so the save of a
\* None message raises IntegrityError and no row is stored.
Notification_save(msg, kw) ==
    IF msg = None
    THEN [error |-> "IntegrityError", rows |-> << >>]
    ELSE [error |-> None,
          rows |-> << [devices |-> {}, message |-> msg, kwargs |-> JsonDumps(kw, extra)] >>]

\* Notification.create_notification_for, notification.devices.add(*devices):
\* the rows with the devices put on the row inserted last
devices_add(rows, devices) ==
    [rows EXCEPT ![Len(rows)].devices = devices]

\* Notification.create_notification_for at its return: error and rows
create_notification_for(devices, msg, kw) ==
    LET saved == Notification_save(msg, kw)
    IN  IF saved.error # None THEN saved
        ELSE [saved EXCEPT !.rows = devices_add(saved.rows, devices)]

\* the keyword arguments as the client receives them (references followed)
Forwarded(kw) == JsonDumps(kw, extra)

(* ------------------------------- Init ---------------------------------- *)

Init ==
    /\ \E types \in [DeviceIds -> StoredTypes], act \in [DeviceIds -> BOOLEAN] :
          registry = [d \in DeviceIds |->
                        [device_type |-> types[d], active |-> act[d],
                         registration_id |-> RegistrationIdOf(d)]]
    /\ extra = CallerExtra
    /\ inst = NoInst
    /\ notifications = << >>
    /\ calls = << >>
    /\ result = Pending
    /\ pc = "idle"
    /\ message = None
    /\ kwargs = EmptyMapping
    /\ queryset = NoQuerySet
    /\ cache = {}
    /\ buckets = [t \in {} |-> {}]
    /\ keys = << >>
    /\ data = EmptyMapping
    /\ reg_ids = << >>
    /\ nested = FALSE
    /\ entry = NoEntry

(* --------------------- the caller starts a call ------------------------ *)

\* state common to every start of a call
Start(m, kw) ==
    /\ pc = "idle"
    /\ message' = m
    /\ kwargs' = kw
    /\ UNCHANGED << registry, extra, notifications, calls, result, cache, buckets,
                    keys, data, reg_ids, nested >>

\* model.objects.get(pk=d).send_message(m, **kw)
CallDeviceSend ==
    \E d \in DOMAIN registry, model \in {"Device", "APNSDevice", "GCMDevice"},
       m \in Messages, kw \in KwargsChoices :
        /\ ManagerFilter(model, d)
        /\ Start(m, kw)
        /\ inst' = [pk |-> d, cls |-> model, loaded |-> model,
                    device_type |-> registry[d].device_type]
        /\ queryset' = NoQuerySet
        /\ entry' = [kind |-> "device", cls |-> model, pk |-> d, qs |-> NoQuerySet,
                     kwargs |-> JsonDumps(kw, extra), extra |-> extra]
        /\ pc' = "device"

\* a further send_message on the instance the caller already holds
CallHeldDeviceSend ==
    \E m \in Messages, kw \in KwargsChoices :
        /\ inst.cls # "none"
        /\ Start(m, kw)
        /\ UNCHANGED inst
        /\ queryset' = NoQuerySet
        /\ entry' = [kind |-> "held", cls |-> inst.cls, pk |-> inst.pk, qs |-> NoQuerySet,
                     kwargs |-> JsonDumps(kw, extra), extra |-> extra]
        /\ pc' = "device"

\* model.objects.filter(pk__in=ids).send_message(m, **kw)
CallQuerySetSend ==
    \E model \in {"Device", "APNSDevice", "GCMDevice"}, ids \in SUBSET DeviceIds,
       m \in Messages, kw \in KwargsChoices :
        /\ Start(m, kw)
        /\ UNCHANGED inst
        /\ queryset' = [model |-> model, ids |-> ids]
        /\ entry' = [kind |-> "queryset", cls |-> model, pk |-> 0,
                     qs |-> [model |-> model, ids |-> ids],
                     kwargs |-> JsonDumps(kw, extra), extra |-> extra]
        /\ pc' = IF model = "Device" THEN "generic" ELSE "bulk"

(* ------------------------ single-device sends -------------------------- *)

Return(value) == [kind |-> "return", value |-> value]

Raise(error) == [kind |-> "raise", value |-> error]

\* a provider client call, as the client sees it
ClientCall(client, kind, ids, alert, has_data, payload, kw, outcome) ==
    [client |-> client, kind |-> kind, registration_ids |-> ids, alert |-> alert,
     has_data |-> has_data, data |-> payload, kwargs |-> kw, outcome |-> outcome]

\* notification.save() inside a send: the row is stored and the send goes on
\* at position next, or the error ends the send
Recorded(saved, next) ==
    /\ notifications' = notifications \o saved.rows
    /\ IF saved.error # None
       THEN /\ result' = Raise(saved.error)
            /\ pc' = "done"
       ELSE /\ result' = result
            /\ pc' = next

\* the class Device.send_message gives an untyped instance
Retyped(device_type) == IF device_type = APNS THEN "APNSDevice" ELSE "GCMDevice"

\* variant: the message is not put into the data mapping
GcmData_unmerged(kw, msg) ==
    IF "extra" \in DOMAIN kw THEN extra ELSE EmptyMapping

\* data = kwargs.pop("extra", {}); if message is not None: data["message"] = message
GcmData(kw, msg) ==
    LET popped == IF "extra" \in DOMAIN kw THEN extra ELSE EmptyMapping
    IN  IF msg # None THEN SetItem(popped, "message", msg) ELSE popped

\* variant: the generic entry also stores the provider it resolved
Device_send_message_saving ==
    /\ pc = "device"
    /\ inst.cls = "Device"
    /\ inst' = [inst EXCEPT !.cls = Retyped(inst.device_type)]
    /\ registry' = [registry EXCEPT ![inst.pk].device_type =
                        IF registry[inst.pk].device_type = APNS THEN APNS ELSE GCM]
    /\ nested' = TRUE
    /\ UNCHANGED << extra, notifications, calls, result, pc, message, kwargs,
                    queryset, cache, buckets, keys, data, reg_ids, entry >>

\* Device.send_message on an instance whose class is Device: retype the
\* instance in place and call send_message again, dropping what it returns
Device_send_message ==
    /\ pc = "device"
    /\ inst.cls = "Device"
    /\ inst' = [inst EXCEPT !.cls = Retyped(inst.device_type)]
    /\ nested' = TRUE
    /\ UNCHANGED << registry, extra, notifications, calls, result, pc, message, kwargs,
                    queryset, cache, buckets, keys, data, reg_ids, entry >>

\* APNSDevice/GCMDevice.send_message, first statement: super().send_message,
\* which finds self.__class__ != Device and calls create_notification_for;
\* this step is its notification.save()
Typed_super_send_message ==
    /\ pc = "device"
    /\ inst.cls # "Device"
    /\ Recorded(Notification_save(message, kwargs), "device_add")
    /\ UNCHANGED << registry, extra, inst, calls, message, kwargs,
                    queryset, cache, buckets, keys, data, reg_ids, nested, entry >>

\* the same create_notification_for, notification.devices.add(self)
Typed_devices_add ==
    /\ pc = "device_add"
    /\ notifications' = devices_add(notifications, {inst.pk})
    /\ pc' = "client"
    /\ UNCHANGED << registry, extra, inst, calls, result, message, kwargs,
                    queryset, cache, buckets, keys, data, reg_ids, nested, entry >>

\* variant: a failed provider call is tried again
Finish_retrying(outcome, response) ==
    IF outcome = "raise"
    THEN /\ result' = result
         /\ pc' = pc
    ELSE /\ result' = Return(IF nested THEN None ELSE response)
         /\ pc' = "done"

\* how a call gives control back after its provider call
Finish(outcome, response) ==
    IF outcome = "raise"
    THEN /\ result' = Raise("TransportError")
         /\ pc' = "done"
    ELSE /\ result' = Return(IF nested THEN None ELSE response)
         /\ pc' = "done"

\* APNSDevice.send_message: apns_send_message(registration_id, alert=message, **kwargs)
APNSDevice_send_message ==
    \E outcome \in Outcomes :
        /\ pc = "client"
        /\ inst.cls = "APNSDevice"
        /\ calls' = Append(calls,
              ClientCall("apns", "single", << registry[inst.pk].registration_id >>,
                         message, FALSE, EmptyMapping, Forwarded(kwargs), outcome))
        /\ Finish(outcome, ApnsResponse)
        /\ UNCHANGED << registry, extra, inst, notifications, message, kwargs,
                        queryset, cache, buckets, keys, data, reg_ids, nested, entry >>

\* GCMDevice.send_message: build data, gcm_send_message(registration_id, data, **kwargs)
GCMDevice_send_message ==
    \E outcome \in Outcomes :
        /\ pc = "client"
        /\ inst.cls = "GCMDevice"
        /\ data' = GcmData(kwargs, message)
        /\ extra' = IF "extra" \in DOMAIN kwargs THEN GcmData(kwargs, message) ELSE extra
        /\ calls' = Append(calls,
              ClientCall("gcm", "single", << registry[inst.pk].registration_id >>,
                         None, TRUE, GcmData(kwargs, message),
                         Forwarded(Pop(kwargs, "extra")), outcome))
        /\ Finish(outcome, GcmResponse)
        /\ UNCHANGED << registry, inst, notifications, message, kwargs,
                        queryset, cache, buckets, keys, reg_ids, nested, entry >>

(* ------------------------ provider-scoped bulk ------------------------- *)

\* variant: the loop of the generic call goes on after a bucket has failed
BulkFinish_swallowing(outcome, response) ==
    IF nested
    THEN /\ result' = result
         /\ pc' = "loop"
    ELSE IF outcome = "raise"
    THEN /\ result' = Raise("TransportError")
         /\ pc' = "done"
    ELSE /\ result' = Return(response)
         /\ pc' = "done"

\* how a bulk call gives control back: to the caller, or to the loop of the
\* generic call that made it (which drops the returned value)
BulkFinish(outcome, response) ==
    IF outcome = "raise"
    THEN /\ result' = Raise("TransportError")
         /\ pc' = "done"
    ELSE IF nested
    THEN /\ result' = result
         /\ pc' = "loop"
    ELSE /\ result' = Return(response)
         /\ pc' = "done"

\* variant: the bulk send goes on without the test "if self:"
Bulk_if_self_unguarded ==
    /\ pc = "bulk"
    /\ cache' = Rows(queryset)
    /\ pc' = "bulk_record"
    /\ UNCHANGED << registry, extra, inst, notifications, calls, result, message, kwargs,
                    queryset, buckets, keys, data, reg_ids, nested, entry >>

\* APNSDeviceQuerySet/GCMDeviceQuerySet.send_message: "if self:"
Bulk_if_self ==
    /\ pc = "bulk"
    /\ cache' = Rows(queryset)
    /\ IF Rows(queryset) = {}
       THEN BulkFinish("ok", None)
       ELSE /\ pc' = "bulk_record"
            /\ result' = result
    /\ UNCHANGED << registry, extra, inst, notifications, calls, message, kwargs,
                    queryset, buckets, keys, data, reg_ids, nested, entry >>

\* variant: the bulk send goes to the provider without creating the Notification
Bulk_create_notification_skipped ==
    /\ pc = "bulk_record"
    /\ pc' = "bulk_reg_ids"
    /\ UNCHANGED << registry, extra, inst, notifications, calls, result, message, kwargs,
                    queryset, cache, buckets, keys, data, reg_ids, nested, entry >>

\* Notification.create_notification_for(self, message, **kwargs): its
\* notification.save()
Bulk_create_notification ==
    /\ pc = "bulk_record"
    /\ Recorded(Notification_save(message, kwargs), "bulk_add")
    /\ UNCHANGED << registry, extra, inst, calls, message, kwargs,
                    queryset, cache, buckets, keys, data, reg_ids, nested, entry >>

\* the same create_notification_for, notification.devices.add(*self): the
\* devices are those of the result cache that "if self:" filled
Bulk_devices_add ==
    /\ pc = "bulk_add"
    /\ notifications' = devices_add(notifications, cache)
    /\ pc' = "bulk_reg_ids"
    /\ UNCHANGED << registry, extra, inst, calls, result, message, kwargs,
                    queryset, cache, buckets, keys, data, reg_ids, nested, entry >>

\* (GCM: build data;) reg_ids = list(self.filter(active=True).values_list(...))
Bulk_reg_ids ==
    /\ pc = "bulk_reg_ids"
    /\ reg_ids' \in ActiveRegIds(queryset)
    /\ IF queryset.model = "GCMDevice"
       THEN /\ data' = GcmData(kwargs, message)
            /\ extra' = IF "extra" \in DOMAIN kwargs THEN GcmData(kwargs, message) ELSE extra
       ELSE UNCHANGED << data, extra >>
    /\ pc' = "bulk_call"
    /\ UNCHANGED << registry, inst, notifications, calls, result, message, kwargs,
                    queryset, cache, buckets, keys, nested, entry >>

\* apns_send_bulk_message(registration_ids=reg_ids, alert=message, **kwargs)
APNSDeviceQuerySet_send_message ==
    \E outcome \in Outcomes :
        /\ pc = "bulk_call"
        /\ queryset.model = "APNSDevice"
        /\ calls' = Append(calls,
              ClientCall("apns", "bulk", reg_ids, message, FALSE, EmptyMapping,
                         Forwarded(kwargs), outcome))
        /\ BulkFinish(outcome, ApnsResponse)
        /\ UNCHANGED << registry, extra, inst, notifications, message, kwargs,
                        queryset, cache, buckets, keys, data, reg_ids, nested, entry >>

\* gcm_send_bulk_message(registration_ids=reg_ids, data=data, **kwargs)
GCMDeviceQuerySet_send_message ==
    \E outcome \in Outcomes :
        /\ pc = "bulk_call"
        /\ queryset.model = "GCMDevice"
        /\ calls' = Append(calls,
              ClientCall("gcm", "bulk", reg_ids, None, TRUE, data,
                         Forwarded(Pop(kwargs, "extra")), outcome))
        /\ BulkFinish(outcome, GcmResponse)
        /\ UNCHANGED << registry, extra, inst, notifications, message, kwargs,
                        queryset, cache, buckets, keys, data, reg_ids, nested, entry >>

(* ---------------------------- generic bulk ----------------------------- *)

\* variant: every key gets the ids of all rows
Grouped_shared(rows) ==
    [t \in { registry[d].device_type : d \in rows } |-> rows]

\* devices[device_type] = devices.get(device_type, []) + [id], over the rows
Grouped(rows) ==
    [t \in { registry[d].device_type : d \in rows } |->
        { d \in rows : registry[d].device_type = t }]

\* DeviceQuerySet.send_message: "if self:"
Generic_if_self ==
    /\ pc = "generic"
    /\ cache' = Rows(queryset)
    /\ IF Rows(queryset) = {}
       THEN /\ result' = Return(None)
            /\ pc' = "done"
       ELSE /\ result' = result
            /\ pc' = "group"
    /\ UNCHANGED << registry, extra, inst, notifications, calls, message, kwargs,
                    queryset, buckets, keys, data, reg_ids, nested, entry >>

\* the loop over self.values_list('pk', 'device_type'); the keys of the dict
\* come in the order in which the rows came back, which no order_by fixes
Generic_group ==
    /\ pc = "group"
    /\ buckets' = Grouped(Rows(queryset))
    /\ keys' \in Orders(DOMAIN Grouped(Rows(queryset)))
    /\ pc' = "loop"
    /\ UNCHANGED << registry, extra, inst, notifications, calls, result, message, kwargs,
                    queryset, cache, data, reg_ids, nested, entry >>

\* one turn of "for key in devices.keys()": resolve the model and call the
\* bulk send of its queryset; after the last key the method returns None
Generic_next_key ==
    /\ pc = "loop"
    /\ IF keys = << >>
       THEN /\ result' = Return(None)
            /\ pc' = "done"
            /\ UNCHANGED << queryset, keys, nested >>
       ELSE IF get_device_model_by_type(Head(keys)) = "None"
       THEN /\ result' = Raise("AttributeError")
            /\ pc' = "done"
            /\ UNCHANGED << queryset, keys, nested >>
       ELSE /\ queryset' = [model |-> get_device_model_by_type(Head(keys)),
                            ids |-> buckets[Head(keys)]]
            /\ keys' = Tail(keys)
            /\ nested' = TRUE
            /\ pc' = "bulk"
            /\ result' = result
    /\ UNCHANGED << registry, extra, inst, notifications, calls, message, kwargs,
                    cache, buckets, data, reg_ids, entry >>

(* ----------------------- back in the caller ---------------------------- *)

\* the caller has the return value or the error of the call and goes on; the
\* frame of the call is gone, and what the call inserted and sent is no longer
\* followed (no send path reads, updates or deletes a Notification row)
CallerContinues ==
    /\ pc = "done"
    /\ pc' = "idle"
    /\ notifications' = << >>
    /\ calls' = << >>
    /\ result' = Pending
    /\ message' = None
    /\ kwargs' = EmptyMapping
    /\ queryset' = NoQuerySet
    /\ cache' = {}
    /\ buckets' = [t \in {} |-> {}]
    /\ keys' = << >>
    /\ data' = EmptyMapping
    /\ reg_ids' = << >>
    /\ nested' = FALSE
    /\ entry' = NoEntry
    /\ UNCHANGED << registry, extra, inst >>

(* --------------------------- specification ----------------------------- *)

Next ==
    \/ CallDeviceSend
    \/ CallHeldDeviceSend
    \/ CallQuerySetSend
    \/ Device_send_message
    \/ Typed_super_send_message
    \/ Typed_devices_add
    \/ APNSDevice_send_message
    \/ GCMDevice_send_message
    \/ Bulk_if_self
    \/ Bulk_create_notification
    \/ Bulk_devices_add
    \/ Bulk_reg_ids
    \/ APNSDeviceQuerySet_send_message
    \/ GCMDeviceQuerySet_send_message
    \/ Generic_if_self
    \/ Generic_group
    \/ Generic_next_key
    \/ CallerContinues

Spec == Init /\ [][Next]_vars

TypeOK ==
    /\ pc \in {"idle", "done", "device", "device_add", "client", "bulk", "bulk_record",
               "bulk_add", "bulk_reg_ids",
               "bulk_call", "generic", "group", "loop"}
    /\ result.kind \in {"pending", "return", "raise"}

(* ------------------------------ properties ----------------------------- *)

\* the devices of the collection the caller sent to
Input == Rows(entry.qs)

AppleTagged == { d \in Input : registry[d].device_type = APNS }

GoogleTagged == { d \in Input : registry[d].device_type = GCM }

AllKnown == \A d \in Input : registry[d].device_type \in DEVICE_TYPES

GenericBulk == entry.kind = "queryset" /\ entry.cls = "Device"

ScopedBulk == entry.kind = "queryset" /\ entry.cls \in {"APNSDevice", "GCMDevice"}

SingleSend == entry.kind \in {"device", "held"}

GenericSingle == entry.kind \in {"device", "held"} /\ entry.cls = "Device"

RegIdsOf(devices) == { registry[d].registration_id : d \in devices }

CallsOf(client, kind) ==
    { i \in 1 .. Len(calls) : calls[i].client = client /\ calls[i].kind = kind }

\* C1: a generic bulk send on a non-empty collection of a Apple-tagged and g
\* Google-tagged devices creates exactly one Notification, whose device set
\* is the whole collection, also when a > 0 and g > 0.
C1_OneRecordForAllDevices ==
    (pc = "done" /\ GenericBulk /\ Input # {} /\ AllKnown /\ result.kind = "return")
        => /\ Len(notifications) = 1
           /\ notifications[1].devices = Input

\* C2: a generic single send to a device of unknown provider fails with an
\* error, creates no Notification and makes no provider call.
C2_UnknownProviderSingleFails ==
    (GenericSingle /\ registry[entry.pk].device_type \notin DEVICE_TYPES)
        => /\ notifications = << >>
           /\ calls = << >>
           /\ (pc = "done" => result.kind = "raise")

\* C3: a generic bulk send on a collection holding a device of unknown
\* provider fails before any Notification is created and before any provider
\* call is made, whatever else the collection holds.
C3_UnknownProviderBulkFailsFirst ==
    (GenericBulk /\ ~AllKnown)
        => /\ notifications = << >>
           /\ calls = << >>
           /\ (pc = "done" => result.kind = "raise")

\* C4: no provider call, single or bulk, is given the registration id of a
\* device whose active flag is false.
C4_InactiveNeverDelivered ==
    \A i \in 1 .. Len(calls) :
        \A d \in DeviceIds :
            registry[d].registration_id \in SeqRange(calls[i].registration_ids)
                => registry[d].active

\* C5: whenever a provider call has been made, the Notification of that call
\* already exists: the i-th provider call of a send has the i-th Notification
\* of the send, with the message of the send and with devices that cover the
\* registration ids of the call.
C5_RecordPrecedesProviderCall ==
    \A i \in 1 .. Len(calls) :
        /\ i <= Len(notifications)
        /\ notifications[i].message = message
        /\ SeqRange(calls[i].registration_ids) \subseteq RegIdsOf(notifications[i].devices)

C5_Witness ==
    /\ pc = "bulk_call"
    /\ nested
    /\ Len(calls) = 1
    /\ Len(notifications) = 2

\* C6: every provider-scoped bulk send on a non-empty collection makes one
\* bulk call whose registration ids are exactly those of the active devices of
\* the collection, and one Notification whose device set is the whole
\* collection, inactive devices included; with only inactive devices the id
\* list is empty.
C6_ActiveIdsWholeRecord ==
    (pc = "done" /\ ScopedBulk /\ Input # {})
        => /\ Len(calls) = 1
           /\ calls[1].kind = "bulk"
           /\ calls[1].client = (IF entry.cls = "APNSDevice" THEN "apns" ELSE "gcm")
           /\ SeqRange(calls[1].registration_ids)
                 = RegIdsOf({ d \in Input : registry[d].active })
           /\ Len(calls[1].registration_ids)
                 = Cardinality({ d \in Input : registry[d].active })
           /\ Len(notifications) = 1
           /\ notifications[1].devices = Input

\* C7 as stated: every generic bulk send makes no provider call if a+g = 0,
\* else exactly one Apple bulk call iff a > 0 and exactly one Google bulk call
\* iff g > 0, and never a single-device call.
C7_Original ==
    (pc = "done" /\ GenericBulk /\ AllKnown)
        => /\ Cardinality(CallsOf("apns", "bulk")) = (IF AppleTagged # {} THEN 1 ELSE 0)
           /\ Cardinality(CallsOf("gcm", "bulk")) = (IF GoogleTagged # {} THEN 1 ELSE 0)
           /\ CallsOf("apns", "single") = {}
           /\ CallsOf("gcm", "single") = {}

\* C7 amended: a generic bulk send never makes a single-device call and makes
\* at most one bulk call per provider, none for a provider without devices
\* in the collection; when no provider call raises, it makes exactly one
\* Apple bulk call iff a > 0 and exactly one Google bulk call iff g > 0.
C7_BulkCallsPerProvider ==
    (GenericBulk /\ AllKnown)
        => /\ CallsOf("apns", "single") = {}
           /\ CallsOf("gcm", "single") = {}
           /\ Cardinality(CallsOf("apns", "bulk")) <= (IF AppleTagged # {} THEN 1 ELSE 0)
           /\ Cardinality(CallsOf("gcm", "bulk")) <= (IF GoogleTagged # {} THEN 1 ELSE 0)
           /\ (pc = "done" /\ result.kind = "return")
                 => /\ Cardinality(CallsOf("apns", "bulk")) = (IF AppleTagged # {} THEN 1 ELSE 0)
                    /\ Cardinality(CallsOf("gcm", "bulk")) = (IF GoogleTagged # {} THEN 1 ELSE 0)

C7_Witness ==
    /\ pc = "done"
    /\ GenericBulk
    /\ AppleTagged # {}
    /\ GoogleTagged # {}
    /\ result.kind = "return"
    /\ Cardinality(CallsOf("apns", "bulk")) = 1
    /\ Cardinality(CallsOf("gcm", "bulk")) = 1

\* how many of the Notification rows of the running call have their devices:
\* all of them, but for the row whose devices.add is the next step
Complete ==
    IF pc \in {"device_add", "bulk_add"} THEN Len(notifications) - 1 ELSE Len(notifications)

\* the Notification rows inserted by the running call are never removed
\* while the call runs, and never changed once they have their devices; the
\* row inserted last only gets its devices
RecordsKept ==
    pc # "done" =>
        \A i \in 1 .. Len(notifications) :
            /\ i <= Len(notifications')
            /\ notifications'[i].message = notifications[i].message
            /\ notifications'[i].kwargs = notifications[i].kwargs
            /\ notifications[i].devices \subseteq notifications'[i].devices
            /\ i <= Complete => notifications'[i] = notifications[i]

\* C8: when a provider call raises, that call is the last provider call of
\* the send (no retry, no further call), the caller gets the same error, and
\* the Notification created before the call is still stored, with the devices
\* and the message of the call; no Notification is ever changed once
\* create_notification_for has returned.
C8_ErrorPropagatesRecordKept ==
    /\ [](\A i \in 1 .. Len(calls) :
             calls[i].outcome = "raise"
                => /\ i = Len(calls)
                   /\ pc = "done"
                   /\ result = Raise("TransportError")
                   /\ Len(notifications) = i
                   /\ notifications[i].devices
                         = (IF SingleSend THEN {entry.pk} ELSE Rows(queryset))
                   /\ notifications[i].message = message)
    /\ [][RecordsKept]_vars

C8_Witness ==
    /\ pc = "done"
    /\ result = Raise("TransportError")
    /\ Len(calls) = 2
    /\ calls[1].outcome = "ok"
    /\ calls[2].outcome = "raise"
    /\ Len(notifications) = 2

\* C9: every single-device send creates exactly one Notification, for exactly
\* that device, with the message and the serialized arguments of the call;
\* this content does not depend on the class of the reference, so a generic
\* reference, a provider-typed one and a reference retyped by an earlier
\* generic send all give the same Notification.
C9_SingleSendOneRecord ==
    SingleSend
        => /\ Len(notifications) <= 1
           /\ pc \in {"client", "done"}
                 => /\ Len(notifications) = 1
                    /\ notifications[1] = [devices |-> {entry.pk}, message |-> message,
                                           kwargs |-> entry.kwargs]

\* C10: a send to an empty collection, generic or provider-scoped, inserts no
\* Notification, makes no provider call and returns None.
C10_EmptyCollectionNoop ==
    (entry.kind = "queryset" /\ Input = {})
        => /\ notifications = << >>
           /\ calls = << >>
           /\ pc = "done" => result = Return(None)

C10_Witness ==
    /\ pc = "done"
    /\ entry.kind = "queryset"
    /\ entry.cls # "Device"
    /\ entry.qs.ids # {}
    /\ Input = {}
    /\ result = Return(None)

\* the response the client of a call gives when it does not raise
ResponseOf(call) == IF call.client = "apns" THEN ApnsResponse ELSE GcmResponse

\* C11: a send to a non-empty target that made a provider call and returned
\* gives its caller the response of a provider call it made, on the typed and
\* generic single paths and on the scoped and generic bulk paths.
C11_ReturnsProviderResponse ==
    (pc = "done" /\ result.kind = "return" /\ calls # << >>)
        => \E i \in 1 .. Len(calls) : result.value = ResponseOf(calls[i])

\* a send_message of APNSDevice or of APNSDeviceQuerySet is running
ApplePath ==
    \/ pc \in {"device", "device_add", "client"} /\ inst.cls = "APNSDevice"
    \/ /\ pc \in {"bulk", "bulk_record", "bulk_add", "bulk_reg_ids", "bulk_call"}
       /\ queryset.model = "APNSDevice"

\* C12: a Google call made with a message that is not None gets as data the
\* caller's extra mapping (the empty mapping if none was passed) with key
\* message set to the message, and gets the other keyword arguments without
\* extra; an Apple call gets the message as alert and no data mapping, and
\* the Apple send puts nothing into any mapping.
C12_MessagePlacement ==
    /\ [](\A i \in 1 .. Len(calls) :
             /\ (calls[i].client = "gcm" /\ message # None)
                   => /\ calls[i].has_data
                      /\ calls[i].data
                            = SetItem(IF "extra" \in DOMAIN kwargs THEN entry.extra
                                      ELSE EmptyMapping, "message", message)
                      /\ calls[i].kwargs = JsonDumps(Pop(kwargs, "extra"), EmptyMapping)
             /\ calls[i].client = "apns"
                   => /\ calls[i].alert = message
                      /\ ~calls[i].has_data
                      /\ calls[i].data = EmptyMapping)
    /\ [][ApplePath => (extra' = extra /\ data' = data)]_vars

C12_Witness ==
    /\ pc = "done"
    /\ Len(calls) = 2
    /\ \E i \in 1 .. 2 :
          /\ calls[i].client = "gcm"
          /\ calls[i].data = SetItem(CallerExtra, "message", "hi")
          /\ calls[3 - i].client = "apns"
          /\ calls[3 - i].alert = "hi"
    /\ "badge" \in DOMAIN kwargs

\* C13: no step of any send changes the Device table: no row is added or
\* removed and no row changes its provider tag, active flag or registration
\* id; retyping an instance does not touch its stored row.
C13_RegistryUnchanged == [][registry' = registry]_vars

C13_Witness ==
    /\ pc = "done"
    /\ inst.loaded = "Device"
    /\ inst.cls = "GCMDevice"
    /\ registry[inst.pk].device_type = UNKNOWN
    /\ calls # << >>

\* C14: in a generic mixed bulk send (a > 0, g > 0) with an extra mapping, what
\* each bucket records and sends does not depend on which bucket goes first.
\* The bucket that goes first records and sends the arguments as the caller
\* passed them, so both buckets must do so in either order: every
\* Notification holds the caller's serialized arguments, the Apple call gets
\* them, and the Google call gets the caller's extra plus the message.
C14_BucketsIndependent ==
    (/\ pc = "done"
     /\ GenericBulk
     /\ AllKnown
     /\ AppleTagged # {}
     /\ GoogleTagged # {}
     /\ "extra" \in DOMAIN kwargs
     /\ result.kind = "return")
        => \A i \in 1 .. Len(calls) :
              /\ notifications[i].kwargs = entry.kwargs
              /\ calls[i].client = "apns" => calls[i].kwargs = entry.kwargs
              /\ calls[i].client = "gcm"
                    => calls[i].data
                          = (IF message # None THEN SetItem(entry.extra, "message", message)
                             ELSE entry.extra)

\* C15: no send alters the mapping the caller passes as extra: it always has
\* the keys and values the caller gave it.
C15_ExtraNeverAltered == extra = CallerExtra

\* C16: in a generic bulk send the buckets partition the input: every device
\* of the collection is in the bucket of its stored provider tag and in no
\* other, no bucket is empty; the re-query of a bucket gives exactly the
\* devices of the bucket; every Notification of the send holds exactly one
\* bucket (once create_notification_for has returned), no two hold a common
\* device, every call targets devices of its Notification only, and after a
\* send that dispatched every bucket the Notifications together hold exactly
\* the input collection.
C16_BucketsPartitionInput ==
    (GenericBulk /\ pc \notin {"generic", "group"})
        => /\ \A d \in Input :
                 /\ registry[d].device_type \in DOMAIN buckets
                 /\ \A t \in DOMAIN buckets : d \in buckets[t] <=> t = registry[d].device_type
           /\ \A t \in DOMAIN buckets : buckets[t] # {} /\ buckets[t] \subseteq Input
           /\ pc \in {"bulk_record", "bulk_add", "bulk_reg_ids", "bulk_call"}
                 => /\ cache = queryset.ids
                    /\ \E t \in DOMAIN buckets : queryset.ids = buckets[t]
           /\ \A i \in 1 .. Complete :
                 /\ \E t \in DOMAIN buckets : notifications[i].devices = buckets[t]
                 /\ \A j \in 1 .. Len(notifications) :
                       i # j => notifications[i].devices \cap notifications[j].devices = {}
           /\ \A i \in 1 .. Len(calls) :
                 SeqRange(calls[i].registration_ids) \subseteq RegIdsOf(notifications[i].devices)
           /\ (pc = "done" /\ result.kind = "return")
                 => UNION { notifications[i].devices : i \in 1 .. Len(notifications) } = Input

C16_Witness ==
    /\ pc = "done"
    /\ GenericBulk
    /\ result.kind = "return"
    /\ Cardinality(DOMAIN buckets) = 2
    /\ Len(notifications) = 2
    /\ notifications[1].devices \cup notifications[2].devices = Input
    /\ \E i \in 1 .. 2 : calls[i].registration_ids # << >>

\* C17: in a generic bulk send, when the provider call of the bucket that is
\* dispatched first raises, the send ends there with that error: it has made
\* that one call and created that one Notification, which holds the failed
\* bucket, and no bucket that was still to come has a Notification or a call.
C17_FirstBucketFailureStops ==
    (GenericBulk /\ calls # << >> /\ calls[1].outcome = "raise")
        => /\ pc = "done"
           /\ result = Raise("TransportError")
           /\ Len(calls) = 1
           /\ Len(notifications) = 1
           /\ notifications[1].devices = queryset.ids
           /\ \A i \in 1 .. Len(keys) :
                 /\ buckets[keys[i]] \cap notifications[1].devices = {}
                 /\ RegIdsOf(buckets[keys[i]]) \cap SeqRange(calls[1].registration_ids) = {}

C17_Witness ==
    /\ pc = "done"
    /\ GenericBulk
    /\ AppleTagged # {}
    /\ GoogleTagged # {}
    /\ Len(calls) = 1
    /\ calls[1].outcome = "raise"
    /\ Len(keys) = 1
    /\ Len(notifications) = 1

(* ------------- sends next to writers of the Device table --------------- *)

\* the table with the row of pk d inserted or replaced
WithRow(d, device_type, active) ==
    [x \in (DOMAIN registry) \cup {d} |->
        IF x = d
        THEN [device_type |-> device_type, active |-> active,
              registration_id |-> RegistrationIdOf(d)]
        ELSE registry[x]]

\* save() of an instance of the proxy of device_type, whatever row its pk
\* has: self.device_type is set to the proxy's tag and the row is written,
\* so a new device is registered or the stored row is replaced, tag included
Save(device_type) ==
    \E d \in DeviceIds, active \in BOOLEAN :
        /\ registry' = WithRow(d, device_type, active)
        /\ UNCHANGED << extra, inst, notifications, calls, result, pc, message, kwargs,
                        queryset, cache, buckets, keys, data, reg_ids, nested, entry >>

\* APNSDevice.save, by this or another process, at any moment
APNSDevice_save == Save(APNS)

\* GCMDevice.save, by this or another process, at any moment
GCMDevice_save == Save(GCM)

\* the tables are empty at first
InitW ==
    /\ registry = [d \in {} |-> [device_type |-> APNS, active |-> TRUE,
                                 registration_id |-> RegistrationIdOf(d)]]
    /\ extra = CallerExtra
    /\ inst = NoInst
    /\ notifications = << >>
    /\ calls = << >>
    /\ result = Pending
    /\ pc = "idle"
    /\ message = None
    /\ kwargs = EmptyMapping
    /\ queryset = NoQuerySet
    /\ cache = {}
    /\ buckets = [t \in {} |-> {}]
    /\ keys = << >>
    /\ data = EmptyMapping
    /\ reg_ids = << >>
    /\ nested = FALSE
    /\ entry = NoEntry

NextW ==
    \/ Next
    \/ APNSDevice_save
    \/ GCMDevice_save

SpecW == InitW /\ [][NextW]_vars

\* C18: every registration id given to a provider's bulk call belongs to a
\* device of the Notification created by the same bulk send, also when other
\* processes register devices or change active flags while the send runs.
C18_DeliveredWithinRecorded ==
    \A i \in 1 .. Len(calls) :
        calls[i].kind = "bulk"
            => /\ i <= Len(notifications)
               /\ SeqRange(calls[i].registration_ids) \subseteq RegIdsOf(notifications[i].devices)

====
